---- MODULE Spec2Model ----
(***************************************************************************)
(* Token-bounded text chunking and sampling of Al-Nass-Extractor.          *)
(*                                                                         *)
(*   split_text_by_tokens / estimate_tokens     src/ai_studio_code.py      *)
(*   _count_tokens / _trim_to_token_limit /                                *)
(*   _build_representative_sample               src/py/extract_novel_metadata.py *)
(*                                                                         *)
(* A text is a sequence of one-character strings.  Every function is a     *)
(* small state machine whose steps are the iterations of its loops; `pc`   *)
(* is the position in the function that is running.                        *)
(***************************************************************************)
EXTENDS Integers, Sequences, FiniteSets, TLC

VARIABLES
    pc,             \* position in the running function
    text,           \* the input text (argument `text` / self.text)
    max_tokens,     \* the argument `max_tokens`
    \* ---- split_text_by_tokens (locals) ----
    lines, li,      \* text.split('\n') and the index of the line being visited
    chunks,         \* the output list
    current_chunk,  \* buffered lines
    current_tokens, \* running sum of the buffered lines' estimates
    words, wi,      \* line.split() of an oversized line and the index of the word visited
    word_chunk,     \* buffered words
    word_tokens,    \* running sum of the buffered words' estimates
    \* ---- token counter of NovelMetadataExtractor ----
    tokenizer,      \* which tokenisation the remote counter implements
    client_ok,      \* self.client is a client (API key set) and the count call answers
    calls,          \* number of _count_tokens calls made so far
    \* ---- _trim_to_token_limit (locals) ----
    lo, hi, best,
    result,         \* the value returned
    \* ---- _build_representative_sample (locals) ----
    full, begins, middle, ends,
    begin_txt, mid_txt, end_txt,
    combined, total_tok,
    new_limit,      \* the reduced limit of the correction pass, 0 while it has not run
    sample_meta,
    \* ---- two invocations in flight ----
    running,        \* the invocation whose locals the variables above hold (1 or 2)
    saved,          \* the locals of the other invocation
    inv,            \* the call made by each invocation: function, text, max_tokens
    preempted,      \* whether each invocation has been suspended while under way
    \* ---- NovelIngester.chunk_text (arguments and local) ----
    chunk_size, overlap,
    start,
    \* ---- process_file / NovelIngester.process_novel ----
    caller,         \* which of the two loops is running
    readable,       \* whether the file of process_file can be read
    ci,             \* number of chunks the loop has taken from the list
    handed,         \* the model calls made: chunk, index given and total given
    merged,         \* the indices of the chunks reported finished (process_file) or
                    \* whose data went to _merge_data (process_novel)
    \* ---- NovelIngester._merge_data ----
    characters,     \* self.characters: character_id -> mentions
    dialogues,      \* self.dialogues: the chunk_index stamped on each dialogue
    reports         \* the stripped names of the named records merged so far

splitVars  == <<lines, li, chunks, current_chunk, current_tokens,
                words, wi, word_chunk, word_tokens>>
countVars  == <<tokenizer, client_ok, calls>>
trimVars   == <<lo, hi, best, result>>
sampleVars == <<full, begins, middle, ends, begin_txt, mid_txt, end_txt,
                combined, total_tok, new_limit, sample_meta>>
schedVars  == <<running, saved, inv, preempted>>
ingestVars == <<chunk_size, overlap, start, caller, readable, ci, handed, merged,
                characters, dialogues, reports>>
vars == <<pc, text, max_tokens, splitVars, countVars, trimVars, sampleVars, schedVars,
         ingestVars>>

(***************************************************************************)
(* Bounds of the model                                                     *)
(***************************************************************************)
MaxLen == 7         \* longest text given to split_text_by_tokens
MaxTokens == 2      \* largest max_tokens given to split_text_by_tokens

NL == "\n"
SP == " "
Chars == {"a", SP, NL}

TextsUpTo(alphabet, n) == UNION {[1..k -> alphabet] : k \in 0..n}

(***************************************************************************)
(* Python string primitives                                                *)
(***************************************************************************)
\* str.isspace() of one character
IsSpace(c) == c \in {SP, NL}

\* s[a:b] for 0 <= a, 0 <= b (Python slice, 0-based, end exclusive, clamped)
Slice(s, a, b) ==
    LET e == IF b > Len(s) THEN Len(s) ELSE b
    IN  IF a >= e THEN <<>> ELSE SubSeq(s, a + 1, e)

IsPrefix(p, s) == Len(p) <= Len(s) /\ SubSeq(s, 1, Len(p)) = p

RECURSIVE SplitOnAcc(_, _, _, _, _)
SplitOnAcc(s, sep, i, cur, out) ==
    IF i > Len(s) THEN Append(out, cur)
    ELSE IF s[i] = sep THEN SplitOnAcc(s, sep, i + 1, <<>>, Append(out, cur))
    ELSE SplitOnAcc(s, sep, i + 1, Append(cur, s[i]), out)

\* text.split('\n'): always at least one element, empty pieces kept
SplitLines(s) == SplitOnAcc(s, NL, 1, <<>>, <<>>)

RECURSIVE SplitWordsAcc(_, _, _, _)
SplitWordsAcc(s, i, cur, out) ==
    LET closed == IF cur = <<>> THEN out ELSE Append(out, cur)
    IN  IF i > Len(s) THEN closed
        ELSE IF IsSpace(s[i]) THEN SplitWordsAcc(s, i + 1, <<>>, closed)
        ELSE SplitWordsAcc(s, i + 1, Append(cur, s[i]), out)

\* line.split(): maximal runs of non-whitespace, no empty pieces
SplitWords(s) == SplitWordsAcc(s, 1, <<>>, <<>>)

RECURSIVE Join(_, _)
\* sep.join(parts)
Join(parts, sep) ==
    IF parts = <<>> THEN <<>>
    ELSE IF Len(parts) = 1 THEN parts[1]
    ELSE parts[1] \o sep \o Join(Tail(parts), sep)

RECURSIVE LStrip(_)
LStrip(s) == IF s # <<>> /\ IsSpace(s[1]) THEN LStrip(Tail(s)) ELSE s

RECURSIVE RStrip(_)
RStrip(s) ==
    IF s # <<>> /\ IsSpace(s[Len(s)]) THEN RStrip(SubSeq(s, 1, Len(s) - 1)) ELSE s

\* str.strip()
Strip(s) == LStrip(RStrip(s))

(***************************************************************************)
(* estimate_tokens: the character-count estimate of the except branch.     *)
(* The tiktoken encoder of the try branch is a library outside the         *)
(* repository; the estimate the repository itself defines is len // 3.     *)
(***************************************************************************)
estimate_tokens(t) == Len(t) \div 3

(***************************************************************************)
(* split_text_by_tokens                                                    *)
(***************************************************************************)
FastPathStrict(t, m) == estimate_tokens(t) < m

\* `if total_tokens <= max_tokens`
FastPath(t, m) == estimate_tokens(t) <= m

line == lines[li]
line_tokens == estimate_tokens(Append(line, NL))
word == words[wi]
word_token_count == estimate_tokens(Append(word, SP))

WordDoesNotFitOrFills(wt, cnt, m, wc) == wt + cnt >= m /\ wc # <<>>

\* `if word_tokens + word_token_count > max_tokens and word_chunk`
WordDoesNotFit(wt, cnt, m, wc) == wt + cnt > m /\ wc # <<>>

SplitIdle ==
    /\ lines = <<>> /\ li = 0 /\ chunks = <<>>
    /\ current_chunk = <<>> /\ current_tokens = 0
    /\ words = <<>> /\ wi = 0 /\ word_chunk = <<>> /\ word_tokens = 0

\* return [text]
SplitFastPath ==
    /\ pc = "split"
    /\ FastPath(text, max_tokens)
    /\ chunks' = <<text>>
    /\ pc' = "done"
    /\ UNCHANGED <<schedVars, ingestVars, text, max_tokens, lines, li, current_chunk, current_tokens,
                   words, wi, word_chunk, word_tokens,
                   countVars, trimVars, sampleVars>>

\* chunks = []; lines = text.split('\n'); current_chunk = []; current_tokens = 0
SplitBegin ==
    /\ pc = "split"
    /\ ~FastPath(text, max_tokens)
    /\ lines' = SplitLines(text)
    /\ li' = 1
    /\ chunks' = <<>>
    /\ current_chunk' = <<>>
    /\ current_tokens' = 0
    /\ pc' = "line"
    /\ UNCHANGED <<schedVars, ingestVars, text, max_tokens, words, wi, word_chunk, word_tokens,
                   countVars, trimVars, sampleVars>>

\* a line whose own estimate exceeds the limit: words = line.split()
LineOversized ==
    /\ pc = "line" /\ li <= Len(lines)
    /\ line_tokens > max_tokens
    /\ words' = SplitWords(line)
    /\ wi' = 1
    /\ word_chunk' = <<>>
    /\ word_tokens' = 0
    /\ pc' = "word"
    /\ UNCHANGED <<schedVars, ingestVars, text, max_tokens, lines, li, chunks, current_chunk, current_tokens,
                   countVars, trimVars, sampleVars>>

\* the word does not fit: chunks.append(' '.join(word_chunk)); word_chunk = [word]
WordFlush ==
    /\ pc = "word" /\ wi <= Len(words)
    /\ WordDoesNotFit(word_tokens, word_token_count, max_tokens, word_chunk)
    /\ chunks' = Append(chunks, Join(word_chunk, <<SP>>))
    /\ word_chunk' = <<word>>
    /\ word_tokens' = word_token_count
    /\ wi' = wi + 1
    /\ UNCHANGED <<schedVars, ingestVars, pc, text, max_tokens, lines, li, current_chunk, current_tokens, words,
                   countVars, trimVars, sampleVars>>

\* the word fits, or the word buffer is empty: word_chunk.append(word)
WordAppend ==
    /\ pc = "word" /\ wi <= Len(words)
    /\ ~WordDoesNotFit(word_tokens, word_token_count, max_tokens, word_chunk)
    /\ word_chunk' = Append(word_chunk, word)
    /\ word_tokens' = word_tokens + word_token_count
    /\ wi' = wi + 1
    /\ UNCHANGED <<schedVars, ingestVars, pc, text, max_tokens, lines, li, chunks, current_chunk, current_tokens,
                   words, countVars, trimVars, sampleVars>>

\* after the word loop: `if word_chunk:` flush the buffered lines, then the
\* last word chunk; `continue`
WordsEnd ==
    /\ pc = "word" /\ wi > Len(words)
    /\ IF word_chunk # <<>>
       THEN /\ chunks' = Append(IF current_chunk # <<>>
                                THEN Append(chunks, Join(current_chunk, <<NL>>))
                                ELSE chunks,
                                Join(word_chunk, <<SP>>))
            /\ current_chunk' = <<>>
            /\ current_tokens' = IF current_chunk # <<>> THEN 0 ELSE current_tokens
       ELSE UNCHANGED <<chunks, current_chunk, current_tokens>>
    /\ li' = li + 1
    /\ pc' = "line"
    /\ UNCHANGED <<schedVars, ingestVars, text, max_tokens, lines, words, wi, word_chunk, word_tokens,
                   countVars, trimVars, sampleVars>>

\* the line does not fit the buffer: flush the buffer, start a new one with the line
LineFlush ==
    /\ pc = "line" /\ li <= Len(lines)
    /\ ~(line_tokens > max_tokens)
    /\ current_tokens + line_tokens > max_tokens /\ current_chunk # <<>>
    /\ chunks' = Append(chunks, Join(current_chunk, <<NL>>))
    /\ current_chunk' = <<line>>
    /\ current_tokens' = line_tokens
    /\ li' = li + 1
    /\ UNCHANGED <<schedVars, ingestVars, pc, text, max_tokens, lines, words, wi, word_chunk, word_tokens,
                   countVars, trimVars, sampleVars>>

\* the line fits, or the buffer is empty: current_chunk.append(line)
LineAppend ==
    /\ pc = "line" /\ li <= Len(lines)
    /\ ~(line_tokens > max_tokens)
    /\ ~(current_tokens + line_tokens > max_tokens /\ current_chunk # <<>>)
    /\ current_chunk' = Append(current_chunk, line)
    /\ current_tokens' = current_tokens + line_tokens
    /\ li' = li + 1
    /\ UNCHANGED <<schedVars, ingestVars, pc, text, max_tokens, lines, chunks, words, wi, word_chunk, word_tokens,
                   countVars, trimVars, sampleVars>>

\* after the line loop: `if current_chunk: chunks.append(...)`; return chunks
SplitFinish ==
    /\ pc = "line" /\ li > Len(lines)
    /\ chunks' = IF current_chunk # <<>>
                 THEN Append(chunks, Join(current_chunk, <<NL>>))
                 ELSE chunks
    /\ pc' = "done"
    /\ UNCHANGED <<schedVars, ingestVars, text, max_tokens, lines, li, current_chunk, current_tokens,
                   words, wi, word_chunk, word_tokens,
                   countVars, trimVars, sampleVars>>

CountIdle  == tokenizer = "none" /\ client_ok = TRUE /\ calls = 0
TrimIdle   == lo = 0 /\ hi = 0 /\ best = <<>> /\ result = <<>>
SampleIdle ==
    /\ full = <<>> /\ begins = <<>> /\ middle = <<>> /\ ends = <<>>
    /\ begin_txt = <<>> /\ mid_txt = <<>> /\ end_txt = <<>>
    /\ combined = <<>> /\ total_tok = 0 /\ new_limit = 0
    /\ sample_meta = [segments |-> <<>>, total_tokens |-> 0]

\* no ingestion under way
IngestIdle ==
    /\ chunk_size = 0 /\ overlap = 0 /\ start = 0
    /\ caller = "none" /\ readable = TRUE /\ ci = 0
    /\ handed = <<>> /\ merged = <<>>
    /\ characters = <<>> /\ dialogues = <<>> /\ reports = <<>>

\* one invocation only
SchedIdle  == running = 1 /\ saved = <<>> /\ inv = <<>> /\ preempted = <<>>

InitSplit ==
    /\ pc = "split"
    /\ text \in TextsUpTo(Chars, MaxLen)
    /\ max_tokens \in 0..MaxTokens
    /\ SplitIdle /\ CountIdle /\ TrimIdle /\ SampleIdle /\ SchedIdle /\ IngestIdle

NextSplit ==
    \/ SplitFastPath \/ SplitBegin
    \/ LineOversized \/ WordFlush \/ WordAppend \/ WordsEnd
    \/ LineFlush \/ LineAppend \/ SplitFinish

SpecSplit == InitSplit /\ [][NextSplit]_vars

(***************************************************************************)
(* _count_tokens: the remote CountTokens call.  The service is outside the *)
(* repository, so the tokenisation is a parameter of a run:                *)
(*   "char"     one token per character (additive, monotone)               *)
(*   "ratio"    one token per TOKEN_TO_CHAR_RATIO characters (monotone)    *)
(*   "trigram"  greedy longest match over a vocabulary of all strings of   *)
(*              three characters and of one character: a longer text can   *)
(*              have fewer tokens (two characters are 2 tokens, three      *)
(*              are 1)                                                     *)
(*   "sparse"   one token per 4 * TOKEN_TO_CHAR_RATIO characters: whole    *)
(*              candidate windows fit the segment limit and the three of   *)
(*              them the total budget (monotone)                           *)
(* The empty text has no tokens under any of them.                         *)
(***************************************************************************)
TOKEN_TO_CHAR_RATIO == 4

Tokenizers == {"char", "ratio", "trigram", "sparse"}

\* int(resp.total_tokens) of a call that answers
count_tokens(t) ==
    CASE tokenizer = "char"    -> Len(t)
      [] tokenizer = "ratio"   -> Len(t) \div TOKEN_TO_CHAR_RATIO
      [] tokenizer = "trigram" -> (Len(t) \div 3) + (Len(t) % 3)
      [] tokenizer = "sparse"  -> Len(t) \div (4 * TOKEN_TO_CHAR_RATIO)
      [] OTHER -> 0

(***************************************************************************)
(* _trim_to_token_limit                                                    *)
(***************************************************************************)
MaxTrimLen == 6      \* longest text given to _trim_to_token_limit on its own
MaxTrimTokens == 3   \* largest limit given to _trim_to_token_limit on its own
TrimChars == {"a", SP}

\* `not text.strip()`
IsBlank(t) == Strip(t) = <<>>

WithinLimitOffByOne(tok, m) == tok <= m + 1

\* `tok <= max_tokens`
WithinLimit(tok, m) == tok <= m

QuickAcceptStrict(t, m) == count_tokens(t) < m

\* `if self._count_tokens(text) <= max_tokens`
QuickAccept(t, m) == WithinLimit(count_tokens(t), m)

SearchRangeFromTwo(t) == [lo |-> 2, hi |-> Len(t)]

SearchRangeFromZero(t) == [lo |-> 0, hi |-> Len(t)]

\* lo, hi = 1, len(text)
SearchRange(t) == [lo |-> 1, hi |-> Len(t)]

InitialBestFirstChar(t) == Slice(t, 0, 1)

\* best = ""
InitialBest(t) == <<>>

\* one iteration of `while lo <= hi`
SearchStep(t, m, l, h, b) ==
    LET mid == (l + h) \div 2
        candidate == Slice(t, 0, mid)
        tok == count_tokens(candidate)
    IN  IF WithinLimit(tok, m)
        THEN [lo |-> mid + 1, hi |-> h, best |-> candidate]
        ELSE [lo |-> l, hi |-> mid - 1, best |-> b]

TrimBlank ==
    /\ pc = "trim"
    /\ IsBlank(text)
    /\ result' = <<>>
    /\ pc' = "done"
    /\ UNCHANGED <<schedVars, ingestVars, text, max_tokens, splitVars, countVars, lo, hi, best, sampleVars>>

\* self.client is None: the first count call raises
TrimRaise ==
    /\ pc = "trim"
    /\ ~IsBlank(text)
    /\ ~client_ok
    /\ pc' = "raised"
    /\ UNCHANGED <<schedVars, ingestVars, text, max_tokens, splitVars, countVars, trimVars, sampleVars>>

TrimQuickAccept ==
    /\ pc = "trim"
    /\ ~IsBlank(text)
    /\ client_ok
    /\ QuickAccept(text, max_tokens)
    /\ calls' = calls + 1
    /\ result' = text
    /\ pc' = "done"
    /\ UNCHANGED <<schedVars, ingestVars, text, max_tokens, splitVars, tokenizer, client_ok, lo, hi, best,
                   sampleVars>>

TrimSearchBegin ==
    /\ pc = "trim"
    /\ ~IsBlank(text)
    /\ client_ok
    /\ ~QuickAccept(text, max_tokens)
    /\ calls' = calls + 1
    /\ lo' = SearchRange(text).lo
    /\ hi' = SearchRange(text).hi
    /\ best' = InitialBest(text)
    /\ pc' = "search"
    /\ UNCHANGED <<schedVars, ingestVars, text, max_tokens, splitVars, tokenizer, client_ok, result, sampleVars>>

TrimSearchStep ==
    /\ pc = "search"
    /\ lo <= hi
    /\ LET n == SearchStep(text, max_tokens, lo, hi, best)
       IN  lo' = n.lo /\ hi' = n.hi /\ best' = n.best
    /\ calls' = calls + 1
    /\ UNCHANGED <<schedVars, ingestVars, pc, text, max_tokens, splitVars, tokenizer, client_ok, result,
                   sampleVars>>

\* return best
TrimReturn ==
    /\ pc = "search"
    /\ lo > hi
    /\ result' = best
    /\ pc' = "done"
    /\ UNCHANGED <<schedVars, ingestVars, text, max_tokens, splitVars, countVars, lo, hi, best, sampleVars>>

InitTrim ==
    /\ pc = "trim"
    /\ text \in TextsUpTo(TrimChars, MaxTrimLen)
    /\ max_tokens \in 0..MaxTrimTokens
    /\ tokenizer \in Tokenizers
    /\ client_ok \in BOOLEAN
    /\ calls = 0
    /\ SplitIdle /\ TrimIdle /\ SampleIdle /\ SchedIdle /\ IngestIdle

NextTrim ==
    \/ TrimBlank \/ TrimRaise \/ TrimQuickAccept
    \/ TrimSearchBegin \/ TrimSearchStep \/ TrimReturn

SpecTrim == InitTrim /\ [][NextTrim]_vars

\* the call is straight-line code and one loop: a step that can be taken is
\* taken
SpecTrimFair == SpecTrim /\ WF_vars(NextTrim)

(***************************************************************************)
(* _trim_to_token_limit as one call, for its callers: the value returned   *)
(* and the number of count calls made.                                     *)
(***************************************************************************)
RECURSIVE SearchLoop(_, _, _, _, _, _)
SearchLoop(t, m, l, h, b, c) ==
    IF l > h THEN [out |-> b, calls |-> c]
    ELSE LET n == SearchStep(t, m, l, h, b)
         IN  SearchLoop(t, m, n.lo, n.hi, n.best, c + 1)

trim_to_token_limit(t, m) ==
    IF IsBlank(t) THEN [out |-> <<>>, calls |-> 0]
    ELSE IF QuickAccept(t, m) THEN [out |-> t, calls |-> 1]
    ELSE SearchLoop(t, m, SearchRange(t).lo, SearchRange(t).hi,
                    InitialBest(t), 1)

(***************************************************************************)
(* _build_representative_sample                                            *)
(*                                                                         *)
(* The token constants are the source's divided by 2000 (8000 : 22000 :    *)
(* 2000 = 4 : 11 : 1); the characters-per-token ratio is the source's.     *)
(* The three titles are short bracketed labels.                            *)
(***************************************************************************)
SEGMENT_MAX_TOKENS == 4
TARGET_TOTAL_SAMPLE_TOKENS == 11
MIN_SEGMENT_TOKENS == 1

TITLE_BEGIN  == <<"[", "B", "]">>
TITLE_MIDDLE == <<"[", "M", "]">>
TITLE_END    == <<"[", "E", "]">>

MaxShortLen == 3     \* every text up to this length is sampled
MaxSampleLen == 100  \* longest text sampled
SampleUnits == {<<"a">>, <<"a", SP>>, <<"a", "a", "a", SP, NL>>}

\* the first n characters of unit repeated
Repeated(unit, n) == [i \in 1..n |-> unit[((i - 1) % Len(unit)) + 1]]

\* a word, n - 2 spaces, a word
Gapped(n) == [i \in 1..n |-> IF i = 1 \/ i = n THEN "a" ELSE SP]

SampleTexts ==
    TextsUpTo(Chars, MaxShortLen)
        \cup {Repeated(u, n) : u \in SampleUnits, n \in 1..MaxSampleLen}
        \cup {Gapped(n) : n \in 2..MaxSampleLen}

Min(a, b) == IF a < b THEN a ELSE b
Max(a, b) == IF a > b THEN a ELSE b

SampleFullUnstripped(t) == t

\* full = (self.text or "").strip()
SampleFull(t) == Strip(t)

seg_chars == SEGMENT_MAX_TOKENS * TOKEN_TO_CHAR_RATIO

BeginWindowNoRatio(f) == Slice(f, 0, Min(Len(f), SEGMENT_MAX_TOKENS * 2))

\* begins = full[: min(n, seg_chars * 2)]
BeginWindow(f) == Slice(f, 0, Min(Len(f), seg_chars * 2))

middle_start_wide(f) == Max(0, (Len(f) \div 2) - 2 * seg_chars)

middle_start(f) == Max(0, (Len(f) \div 2) - seg_chars)
middle_end(f) == Min(Len(f), (Len(f) \div 2) + seg_chars)

MiddleWindowSignSlip(f) ==
    Slice(f, middle_start(f), Min(Len(f), (Len(f) \div 2) - seg_chars))

\* middle = full[middle_start:middle_end]
MiddleWindow(f) == Slice(f, middle_start(f), middle_end(f))

EndWindowOneSegment(f) == Slice(f, Max(0, Len(f) - seg_chars), Len(f))

\* ends = full[max(0, n - seg_chars * 2):]
EndWindow(f) == Slice(f, Max(0, Len(f) - seg_chars * 2), Len(f))

\* the entries of `segments` whose text is not blank
IncludedSegments(b, m, e) ==
    SelectSeq(<<[title |-> TITLE_BEGIN, txt |-> b],
                [title |-> TITLE_MIDDLE, txt |-> m],
                [title |-> TITLE_END, txt |-> e]>>,
              LAMBDA sg : ~IsBlank(sg.txt))

BuildCombinedOneBreak(b, m, e) ==
    LET inc == IncludedSegments(b, m, e)
    IN  Join([i \in 1..Len(inc) |-> Strip(inc[i].title \o <<NL>> \o inc[i].txt)],
             <<NL>>)

\* "\n\n".join([f"{title}\n{txt}".strip() for title, txt in segments if txt.strip()])
BuildCombined(b, m, e) ==
    LET inc == IncludedSegments(b, m, e)
    IN  Join([i \in 1..Len(inc) |-> Strip(inc[i].title \o <<NL>> \o inc[i].txt)],
             <<NL, NL>>)

SegmentsIncludedNonEmpty(b, m, e) ==
    LET inc == SelectSeq(<<[title |-> TITLE_BEGIN, txt |-> b],
                           [title |-> TITLE_MIDDLE, txt |-> m],
                           [title |-> TITLE_END, txt |-> e]>>,
                         LAMBDA sg : sg.txt # <<>>)
    IN  [i \in 1..Len(inc) |-> inc[i].title]

\* [title for title, txt in segments if txt.strip()]
SegmentsIncluded(b, m, e) ==
    LET inc == IncludedSegments(b, m, e)
    IN  [i \in 1..Len(inc) |-> inc[i].title]

StepDownLimitHalved(total) == Max(MIN_SEGMENT_TOKENS, SEGMENT_MAX_TOKENS \div 2)

StepDownLimitInverted(total) ==
    Max(MIN_SEGMENT_TOKENS,
        (SEGMENT_MAX_TOKENS * Max(total, 1)) \div TARGET_TOTAL_SAMPLE_TOKENS)

\* max(2000, int(SEGMENT_MAX_TOKENS * (TARGET_TOTAL_SAMPLE_TOKENS / max(total_tok, 1))))
\* (the source computes the quotient in floating point and truncates)
StepDownLimit(total) ==
    Max(MIN_SEGMENT_TOKENS,
        (SEGMENT_MAX_TOKENS * TARGET_TOTAL_SAMPLE_TOKENS) \div Max(total, 1))

StepDownUntilWithinBudget(total, reduced) == total > TARGET_TOTAL_SAMPLE_TOKENS

\* `if total_tok > TARGET_TOTAL_SAMPLE_TOKENS:`, an `if` and not a loop: it is
\* evaluated after the first measurement only (reduced = 0)
StepDownNeeded(total, reduced) == reduced = 0 /\ total > TARGET_TOTAL_SAMPLE_TOKENS

\* the limit of the trimming pass that is running
segment_limit == IF new_limit = 0 THEN SEGMENT_MAX_TOKENS ELSE new_limit

\* return "", {"segments": [], "total_tokens": 0}
SampleEmpty ==
    /\ pc = "sample"
    /\ SampleFull(text) = <<>>
    /\ full' = <<>>
    /\ combined' = <<>>
    /\ sample_meta' = [segments |-> <<>>, total_tokens |-> 0]
    /\ pc' = "done"
    /\ UNCHANGED <<schedVars, ingestVars, text, max_tokens, splitVars, countVars, trimVars,
                   begins, middle, ends, begin_txt, mid_txt, end_txt,
                   total_tok, new_limit>>

\* the candidate windows
SampleWindows ==
    /\ pc = "sample"
    /\ SampleFull(text) # <<>>
    /\ full' = SampleFull(text)
    /\ begins' = BeginWindow(full')
    /\ middle' = MiddleWindow(full')
    /\ ends' = EndWindow(full')
    /\ pc' = "trim_begin"
    /\ UNCHANGED <<schedVars, ingestVars, text, max_tokens, splitVars, countVars, trimVars,
                   begin_txt, mid_txt, end_txt, combined, total_tok, new_limit,
                   sample_meta>>

\* the window the trimming call at pc works on
WindowAt(p) ==
    CASE p = "trim_begin" -> begins
      [] p = "trim_mid"   -> middle
      [] p = "trim_end"   -> ends
      [] OTHER -> <<>>

\* a count call without a client raises (self.client is None)
SampleRaise ==
    /\ ~client_ok
    /\ \/ pc \in {"trim_begin", "trim_mid", "trim_end"} /\ ~IsBlank(WindowAt(pc))
       \/ pc = "combine"
    /\ pc' = "raised"
    /\ UNCHANGED <<schedVars, ingestVars, text, max_tokens, splitVars, countVars, trimVars, sampleVars>>

\* begin_txt = self._trim_to_token_limit(begins, <limit>)
SampleTrimBegin ==
    /\ pc = "trim_begin"
    /\ client_ok \/ IsBlank(begins)
    /\ LET r == trim_to_token_limit(begins, segment_limit)
       IN  begin_txt' = r.out /\ calls' = calls + r.calls
    /\ pc' = "trim_mid"
    /\ UNCHANGED <<schedVars, ingestVars, text, max_tokens, splitVars, tokenizer, client_ok, trimVars,
                   full, begins, middle, ends, mid_txt, end_txt,
                   combined, total_tok, new_limit, sample_meta>>

\* mid_txt = self._trim_to_token_limit(middle, <limit>)
SampleTrimMiddle ==
    /\ pc = "trim_mid"
    /\ client_ok \/ IsBlank(middle)
    /\ LET r == trim_to_token_limit(middle, segment_limit)
       IN  mid_txt' = r.out /\ calls' = calls + r.calls
    /\ pc' = "trim_end"
    /\ UNCHANGED <<schedVars, ingestVars, text, max_tokens, splitVars, tokenizer, client_ok, trimVars,
                   full, begins, middle, ends, begin_txt, end_txt,
                   combined, total_tok, new_limit, sample_meta>>

\* end_txt = self._trim_to_token_limit(ends, <limit>)
SampleTrimEnd ==
    /\ pc = "trim_end"
    /\ client_ok \/ IsBlank(ends)
    /\ LET r == trim_to_token_limit(ends, segment_limit)
       IN  end_txt' = r.out /\ calls' = calls + r.calls
    /\ pc' = "combine"
    /\ UNCHANGED <<schedVars, ingestVars, text, max_tokens, splitVars, tokenizer, client_ok, trimVars,
                   full, begins, middle, ends, begin_txt, mid_txt,
                   combined, total_tok, new_limit, sample_meta>>

\* combined = ...; total_tok = self._count_tokens(combined)
SampleCombine ==
    /\ pc = "combine"
    /\ client_ok
    /\ combined' = BuildCombined(begin_txt, mid_txt, end_txt)
    /\ total_tok' = count_tokens(combined')
    /\ calls' = calls + 1
    /\ pc' = "decide"
    /\ UNCHANGED <<schedVars, ingestVars, text, max_tokens, splitVars, tokenizer, client_ok, trimVars,
                   full, begins, middle, ends, begin_txt, mid_txt, end_txt,
                   new_limit, sample_meta>>

\* `if total_tok > TARGET_TOTAL_SAMPLE_TOKENS:` after the first pass: the
\* three windows are trimmed again with new_limit.  new_limit >= 1 from then
\* on, so the test is made once.
SampleStepDown ==
    /\ pc = "decide"
    /\ StepDownNeeded(total_tok, new_limit)
    /\ new_limit' = StepDownLimit(total_tok)
    /\ pc' = "trim_begin"
    /\ UNCHANGED <<schedVars, ingestVars, text, max_tokens, splitVars, countVars, trimVars,
                   full, begins, middle, ends, begin_txt, mid_txt, end_txt,
                   combined, total_tok, sample_meta>>

\* sample_meta = {...}; return combined, sample_meta
SampleReturn ==
    /\ pc = "decide"
    /\ ~StepDownNeeded(total_tok, new_limit)
    /\ sample_meta' =
           [segment_max_tokens |-> SEGMENT_MAX_TOKENS,
            target_total_sample_tokens |-> TARGET_TOTAL_SAMPLE_TOKENS,
            actual_total_sample_tokens |-> total_tok,
            segments_included |-> SegmentsIncluded(begin_txt, mid_txt, end_txt)]
    /\ pc' = "done"
    /\ UNCHANGED <<schedVars, ingestVars, text, max_tokens, splitVars, countVars, trimVars,
                   full, begins, middle, ends, begin_txt, mid_txt, end_txt,
                   combined, total_tok, new_limit>>

InitSample ==
    /\ pc = "sample"
    /\ text \in SampleTexts
    /\ max_tokens = 0
    /\ tokenizer \in Tokenizers
    /\ client_ok \in BOOLEAN
    /\ calls = 0
    /\ SplitIdle /\ TrimIdle /\ SampleIdle /\ SchedIdle /\ IngestIdle

NextSample ==
    \/ SampleEmpty \/ SampleWindows \/ SampleRaise
    \/ SampleTrimBegin \/ SampleTrimMiddle \/ SampleTrimEnd
    \/ SampleCombine \/ SampleStepDown \/ SampleReturn

SpecSample == InitSample /\ [][NextSample]_vars

(***************************************************************************)
(* The three functions as single calls: what each returns when run alone.  *)
(***************************************************************************)
\* the word loop over an oversized line: the chunks closed and the words left
\* buffered
RECURSIVE WordLoop(_, _, _, _, _, _)
WordLoop(ws, i, m, wc, wt, out) ==
    IF i > Len(ws) THEN [chunks |-> out, word_chunk |-> wc]
    ELSE LET cnt == estimate_tokens(Append(ws[i], SP))
         IN  IF WordDoesNotFit(wt, cnt, m, wc)
             THEN WordLoop(ws, i + 1, m, <<ws[i]>>, cnt, Append(out, Join(wc, <<SP>>)))
             ELSE WordLoop(ws, i + 1, m, Append(wc, ws[i]), wt + cnt, out)

\* the line loop and the final flush
RECURSIVE LineLoop(_, _, _, _, _, _)
LineLoop(ls, i, m, cc, ct, out) ==
    IF i > Len(ls)
    THEN IF cc # <<>> THEN Append(out, Join(cc, <<NL>>)) ELSE out
    ELSE LET lt == estimate_tokens(Append(ls[i], NL))
         IN  IF lt > m
             THEN LET w == WordLoop(SplitWords(ls[i]), 1, m, <<>>, 0, out)
                  IN  IF w.word_chunk # <<>>
                      THEN LineLoop(ls, i + 1, m, <<>>, IF cc # <<>> THEN 0 ELSE ct,
                                    Append(IF cc # <<>>
                                           THEN Append(w.chunks, Join(cc, <<NL>>))
                                           ELSE w.chunks,
                                           Join(w.word_chunk, <<SP>>)))
                      ELSE LineLoop(ls, i + 1, m, cc, ct, w.chunks)
             ELSE IF ct + lt > m /\ cc # <<>>
                  THEN LineLoop(ls, i + 1, m, <<ls[i]>>, lt, Append(out, Join(cc, <<NL>>)))
                  ELSE LineLoop(ls, i + 1, m, Append(cc, ls[i]), ct + lt, out)

split_text_by_tokens(t, m) ==
    IF FastPath(t, m) THEN <<t>>
    ELSE LineLoop(SplitLines(t), 1, m, <<>>, 0, <<>>)

\* the three trimmed segments under one limit
TrimmedSegments(f, limit) ==
    [begin_txt |-> trim_to_token_limit(BeginWindow(f), limit).out,
     mid_txt   |-> trim_to_token_limit(MiddleWindow(f), limit).out,
     end_txt   |-> trim_to_token_limit(EndWindow(f), limit).out]

\* combined and sample_meta of one pass
SampleOf(g) ==
    LET c == BuildCombined(g.begin_txt, g.mid_txt, g.end_txt)
    IN  [combined |-> c,
         sample_meta |->
             [segment_max_tokens |-> SEGMENT_MAX_TOKENS,
              target_total_sample_tokens |-> TARGET_TOTAL_SAMPLE_TOKENS,
              actual_total_sample_tokens |-> count_tokens(c),
              segments_included |-> SegmentsIncluded(g.begin_txt, g.mid_txt, g.end_txt)]]

build_representative_sample(t) ==
    LET f == SampleFull(t)
    IN  IF f = <<>>
        THEN [combined |-> <<>>, sample_meta |-> [segments |-> <<>>, total_tokens |-> 0]]
        ELSE LET first == SampleOf(TrimmedSegments(f, SEGMENT_MAX_TOKENS))
                 total == first.sample_meta.actual_total_sample_tokens
             IN  IF StepDownNeeded(total, 0)
                 THEN SampleOf(TrimmedSegments(f, StepDownLimit(total)))
                 ELSE first

(***************************************************************************)
(* Two invocations in flight.  Each has its own locals; the one that is    *)
(* running holds them in the variables of the functions above, the other   *)
(* one's are in `saved`.  The token counter (tokenizer, client_ok) is the  *)
(* only thing the two have in common, and nothing writes it.  A switch     *)
(* can happen between any two steps; inside _build_representative_sample   *)
(* the trimming calls are taken one count call at a time.                  *)
(***************************************************************************)
ConcTrimLen  == 6
ConcShortLen == 9
ConcLongLen  == 40

ConcSplitText ==
    <<"a", "a", NL, "a", "a", NL, "a", "a", "a", "a", "a", SP, "a">>

\* the calls the invocations make
ConcCalls ==
    { [kind |-> "split", text |-> <<"a">>, max_tokens |-> 1],
      [kind |-> "split", text |-> ConcSplitText, max_tokens |-> 1],
      [kind |-> "trim", text |-> <<SP>>, max_tokens |-> 1],
      [kind |-> "trim", text |-> <<"a", "a">>, max_tokens |-> 3],
      [kind |-> "trim", text |-> Repeated(<<"a", SP>>, ConcTrimLen), max_tokens |-> 1],
      [kind |-> "sample", text |-> <<>>, max_tokens |-> 0],
      [kind |-> "sample", text |-> Repeated(<<"a">>, ConcShortLen), max_tokens |-> 0],
      [kind |-> "sample", text |-> Repeated(<<"a", "a", "a", SP, NL>>, ConcLongLen),
       max_tokens |-> 0] }

StartPc(kind) ==
    CASE kind = "split" -> "split"
      [] kind = "trim" -> "trim"
      [] kind = "sample" -> "sample"

Terminal(p) == p \in {"done", "raised"}

\* the locals of the running invocation
Frame ==
    [pc |-> pc, text |-> text, max_tokens |-> max_tokens,
     lines |-> lines, li |-> li, chunks |-> chunks,
     current_chunk |-> current_chunk, current_tokens |-> current_tokens,
     words |-> words, wi |-> wi, word_chunk |-> word_chunk, word_tokens |-> word_tokens,
     calls |-> calls, lo |-> lo, hi |-> hi, best |-> best, result |-> result,
     full |-> full, begins |-> begins, middle |-> middle, ends |-> ends,
     begin_txt |-> begin_txt, mid_txt |-> mid_txt, end_txt |-> end_txt,
     combined |-> combined, total_tok |-> total_tok, new_limit |-> new_limit,
     sample_meta |-> sample_meta]

\* the locals of an invocation that has not made a step
StartFrame(c) ==
    [pc |-> StartPc(c.kind), text |-> c.text, max_tokens |-> c.max_tokens,
     lines |-> <<>>, li |-> 0, chunks |-> <<>>,
     current_chunk |-> <<>>, current_tokens |-> 0,
     words |-> <<>>, wi |-> 0, word_chunk |-> <<>>, word_tokens |-> 0,
     calls |-> 0, lo |-> 0, hi |-> 0, best |-> <<>>, result |-> <<>>,
     full |-> <<>>, begins |-> <<>>, middle |-> <<>>, ends |-> <<>>,
     begin_txt |-> <<>>, mid_txt |-> <<>>, end_txt |-> <<>>,
     combined |-> <<>>, total_tok |-> 0, new_limit |-> 0,
     sample_meta |-> [segments |-> <<>>, total_tokens |-> 0]]

SharedBest(f) == best

\* `best` is a local of the call: the invocation resumed finds its own
FrameBest(f) == f.best

\* the running invocation is suspended and the other one resumed
Switch ==
    /\ ~Terminal(saved.pc)
    /\ running' = 3 - running
    /\ saved' = Frame
    /\ preempted' = [preempted EXCEPT
                        ![running] = @ \/ (pc # StartPc(inv[running].kind) /\ ~Terminal(pc))]
    /\ pc' = saved.pc /\ text' = saved.text /\ max_tokens' = saved.max_tokens
    /\ lines' = saved.lines /\ li' = saved.li /\ chunks' = saved.chunks
    /\ current_chunk' = saved.current_chunk /\ current_tokens' = saved.current_tokens
    /\ words' = saved.words /\ wi' = saved.wi
    /\ word_chunk' = saved.word_chunk /\ word_tokens' = saved.word_tokens
    /\ calls' = saved.calls /\ lo' = saved.lo /\ hi' = saved.hi
    /\ best' = FrameBest(saved)
    /\ result' = saved.result
    /\ full' = saved.full /\ begins' = saved.begins
    /\ middle' = saved.middle /\ ends' = saved.ends
    /\ begin_txt' = saved.begin_txt /\ mid_txt' = saved.mid_txt /\ end_txt' = saved.end_txt
    /\ combined' = saved.combined /\ total_tok' = saved.total_tok
    /\ new_limit' = saved.new_limit /\ sample_meta' = saved.sample_meta
    /\ UNCHANGED <<tokenizer, client_ok, inv, ingestVars>>

TrimPcs   == {"trim_begin", "trim_mid", "trim_end"}
SearchPcs == {"search_begin", "search_mid", "search_end"}

\* the position inside the trimming call made at p, and back
SearchPcOf(p) ==
    CASE p = "trim_begin" -> "search_begin"
      [] p = "trim_mid"   -> "search_mid"
      [] p = "trim_end"   -> "search_end"

TrimPcOf(p) ==
    CASE p = "search_begin" -> "trim_begin"
      [] p = "search_mid"   -> "trim_mid"
      [] p = "search_end"   -> "trim_end"

\* the statement after the trimming call made at p
AfterTrim(p) ==
    CASE p = "trim_begin" -> "trim_mid"
      [] p = "trim_mid"   -> "trim_end"
      [] p = "trim_end"   -> "combine"

\* the trimming call made at p returns without entering the loop
TrimIsShort(p) ==
    IsBlank(WindowAt(p)) \/ QuickAccept(WindowAt(p), segment_limit)

\* a trimming call of the sampler that makes at most one count call
ShortTrimBegin  == pc = "trim_begin" /\ TrimIsShort(pc) /\ SampleTrimBegin
ShortTrimMiddle == pc = "trim_mid" /\ TrimIsShort(pc) /\ SampleTrimMiddle
ShortTrimEnd    == pc = "trim_end" /\ TrimIsShort(pc) /\ SampleTrimEnd

\* a trimming call of the sampler enters its loop
SampleSearchBegin ==
    /\ pc \in TrimPcs
    /\ client_ok
    /\ ~TrimIsShort(pc)
    /\ calls' = calls + 1
    /\ lo' = SearchRange(WindowAt(pc)).lo
    /\ hi' = SearchRange(WindowAt(pc)).hi
    /\ best' = InitialBest(WindowAt(pc))
    /\ pc' = SearchPcOf(pc)
    /\ UNCHANGED <<schedVars, ingestVars, text, max_tokens, splitVars, tokenizer, client_ok, result,
                   sampleVars>>

SampleSearchStep ==
    /\ pc \in SearchPcs
    /\ lo <= hi
    /\ LET n == SearchStep(WindowAt(TrimPcOf(pc)), segment_limit, lo, hi, best)
       IN  lo' = n.lo /\ hi' = n.hi /\ best' = n.best
    /\ calls' = calls + 1
    /\ UNCHANGED <<schedVars, ingestVars, pc, text, max_tokens, splitVars, tokenizer, client_ok,
                   result, sampleVars>>

\* `return best` into begin_txt, mid_txt or end_txt
SampleSearchReturn ==
    /\ pc \in SearchPcs
    /\ lo > hi
    /\ begin_txt' = IF pc = "search_begin" THEN best ELSE begin_txt
    /\ mid_txt' = IF pc = "search_mid" THEN best ELSE mid_txt
    /\ end_txt' = IF pc = "search_end" THEN best ELSE end_txt
    /\ pc' = AfterTrim(TrimPcOf(pc))
    /\ UNCHANGED <<schedVars, ingestVars, text, max_tokens, splitVars, countVars, trimVars,
                   full, begins, middle, ends, combined, total_tok, new_limit,
                   sample_meta>>

InitConc ==
    /\ inv \in [1..2 -> ConcCalls]
    /\ running = 1
    /\ saved = StartFrame(inv[2])
    /\ preempted = [i \in 1..2 |-> FALSE]
    /\ pc = StartPc(inv[1].kind)
    /\ text = inv[1].text
    /\ max_tokens = inv[1].max_tokens
    /\ tokenizer \in Tokenizers
    /\ client_ok \in BOOLEAN
    /\ calls = 0
    /\ SplitIdle /\ TrimIdle /\ SampleIdle /\ IngestIdle

NextConc ==
    \/ SplitFastPath \/ SplitBegin
    \/ LineOversized \/ WordFlush \/ WordAppend \/ WordsEnd
    \/ LineFlush \/ LineAppend \/ SplitFinish
    \/ TrimBlank \/ TrimRaise \/ TrimQuickAccept
    \/ TrimSearchBegin \/ TrimSearchStep \/ TrimReturn
    \/ SampleEmpty \/ SampleWindows \/ SampleRaise
    \/ ShortTrimBegin \/ ShortTrimMiddle \/ ShortTrimEnd
    \/ SampleSearchBegin \/ SampleSearchStep \/ SampleSearchReturn
    \/ SampleCombine \/ SampleStepDown \/ SampleReturn
    \/ Switch

SpecConc == InitConc /\ [][NextConc]_vars

(***************************************************************************)
(* Properties of split_text_by_tokens                                      *)
(***************************************************************************)
RECURSIVE WordsOfChunks(_)
\* the words of the chunks, read in list order
WordsOfChunks(cs) ==
    IF cs = <<>> THEN <<>> ELSE SplitWords(cs[1]) \o WordsOfChunks(Tail(cs))

\* a chunk that is one single word
IsSingleWord(c) == Len(SplitWords(c)) = 1

\* C1: with a limit of at least 1, every returned chunk has an estimate of at
\* most max_tokens, unless the chunk is one single word.
C1_EveryChunkWithinLimit ==
    (pc = "done" /\ max_tokens >= 1) =>
        \A i \in DOMAIN chunks :
            estimate_tokens(chunks[i]) <= max_tokens \/ IsSingleWord(chunks[i])

\* C2: a text whose estimate is within the limit comes back as exactly one
\* chunk, equal to the text character for character.
C2_FittingTextIsOneChunk ==
    (pc = "done" /\ estimate_tokens(text) <= max_tokens) => chunks = <<text>>

\* a text of three lines that fits has been returned
C2_Witness ==
    /\ pc = "done"
    /\ estimate_tokens(text) <= max_tokens
    /\ Len(SplitLines(text)) = 3
    /\ \A i \in 1..3 : SplitLines(text)[i] # <<>>
    /\ chunks = <<text>>

\* C3: the chunks, read in list order, hold the words of the text in their
\* original order, none lost, duplicated or moved.
C3_WordsKeptInOrder ==
    pc = "done" => WordsOfChunks(chunks) = SplitWords(text)

\* C4: no returned chunk is the empty string.
C4_NoEmptyChunk ==
    pc = "done" => \A i \in DOMAIN chunks : chunks[i] # <<>>

(***************************************************************************)
(* Properties of _trim_to_token_limit                                      *)
(***************************************************************************)
Prefix(t, k) == Slice(t, 0, k)

\* the counter is non-decreasing in the length of the prefixes of t
MonotoneOnPrefixes(t) ==
    \A i, j \in 0..Len(t) :
        i <= j => count_tokens(Prefix(t, i)) <= count_tokens(Prefix(t, j))

\* C5: the value returned is a prefix of the text whose token count is at
\* most max_tokens.
C5_ResultIsFittingPrefix ==
    (pc = "done" /\ tokenizer \in Tokenizers) =>
        /\ IsPrefix(result, text)
        /\ count_tokens(result) <= max_tokens

\* the binary search has cut a text down to a non-empty proper prefix
C5_Witness ==
    /\ pc = "done" /\ tokenizer \in Tokenizers
    /\ calls > 1
    /\ result # <<>> /\ Len(result) < Len(text)
    /\ count_tokens(result) <= max_tokens

TrimCallAgrees ==
    (pc = "done" /\ tokenizer \in Tokenizers) =>
        /\ result = trim_to_token_limit(text, max_tokens).out
        /\ calls = trim_to_token_limit(text, max_tokens).calls

(***************************************************************************)
(* Properties of _build_representative_sample                              *)
(***************************************************************************)
\* the segments of the sample that has been built
SampleSegments == <<begin_txt, mid_txt, end_txt>>

\* C8: for an empty or whitespace-only text the sampler returns the empty
\* text with metadata of zero segments and zero tokens, raises nothing (with
\* or without a client) and makes no count call.
C8_EmptyTextEmptySample ==
    IsBlank(text) =>
        /\ pc \in {"sample", "done"}
        /\ calls = 0
        /\ pc = "done" =>
               /\ combined = <<>>
               /\ sample_meta = [segments |-> <<>>, total_tokens |-> 0]

\* a whitespace-only text has been sampled without a client
C8_Witness ==
    /\ pc = "done"
    /\ text # <<>> /\ IsBlank(text)
    /\ ~client_ok
    /\ combined = <<>>

\* C9: every segment of a returned sample, as trimmed and as it stands in
\* the combined text (trailing whitespace stripped), counts at most
\* SEGMENT_MAX_TOKENS; after a correction pass it counts at most the reduced
\* limit, which is at most SEGMENT_MAX_TOKENS.
C9_SegmentsWithinLimit ==
    (pc = "done" /\ full # <<>>) =>
        /\ new_limit <= SEGMENT_MAX_TOKENS
        /\ \A i \in 1..3 :
               /\ count_tokens(SampleSegments[i]) <= SEGMENT_MAX_TOKENS
               /\ count_tokens(RStrip(SampleSegments[i])) <= SEGMENT_MAX_TOKENS
               /\ new_limit # 0 => count_tokens(SampleSegments[i]) <= new_limit

\* a sample of three non-empty segments, each cut by the trimmer, has been
\* returned after a correction pass
C9_Witness ==
    /\ pc = "done"
    /\ new_limit # 0
    /\ begin_txt # <<>> /\ Len(begin_txt) < Len(begins)
    /\ mid_txt # <<>> /\ Len(mid_txt) < Len(middle)
    /\ end_txt # <<>> /\ Len(end_txt) < Len(ends)
    /\ Len(IncludedSegments(begin_txt, mid_txt, end_txt)) = 3

\* the text is not blank, the counter answers, and the stripped text counts
\* fewer tokens than the segment limit
ShortText ==
    /\ ~IsBlank(text)
    /\ client_ok
    /\ count_tokens(Strip(text)) < SEGMENT_MAX_TOKENS

\* C10 (as claimed): for a short text the sampler raises nothing and its
\* begin segment is the whole stripped text.
C10_ShortTextBeginIsWhole_Claimed ==
    ShortText =>
        /\ pc # "raised"
        /\ pc = "done" => begin_txt = Strip(text)

\* C10 (amended): for a short text no longer than a window the sampler raises nothing, the three
\* windows are the whole stripped text, and the begin segment is the whole
\* stripped text when no correction pass ran; after a correction pass it is
\* the stripped text trimmed to the reduced limit.
C10_ShortTextBeginIsWhole ==
    (ShortText /\ Len(Strip(text)) <= 2 * seg_chars) =>
        /\ pc # "raised"
        /\ pc = "done" =>
               /\ begins = Strip(text) /\ middle = Strip(text) /\ ends = Strip(text)
               /\ new_limit = 0 => begin_txt = Strip(text)
               /\ new_limit # 0 =>
                      /\ begin_txt = trim_to_token_limit(Strip(text), new_limit).out
                      /\ IsPrefix(begin_txt, Strip(text))

\* a short text of several words, padded with whitespace, has been sampled
\* without a correction pass: the three windows coincide
C10_Witness ==
    /\ pc = "done"
    /\ ShortText
    /\ Len(SplitWords(text)) > 1 /\ text # Strip(text)
    /\ new_limit = 0
    /\ begins = middle /\ middle = ends
    /\ begin_txt = Strip(text)

\* the stripped text has no whitespace and is at least one window long, and
\* every stretch of it of one window length counts more than the segment
\* limit, so the trimmer has to cut each of the three windows
LongSolidText ==
    /\ Len(Strip(text)) >= 2 * seg_chars
    /\ \A i \in 1..Len(text) : ~IsSpace(text[i])
    /\ \A a \in 0..(Len(Strip(text)) - 2 * seg_chars) :
           count_tokens(SubSeq(Strip(text), a + 1, a + 2 * seg_chars)) > SEGMENT_MAX_TOKENS

\* C11: for a long text without whitespace the returned sample holds all
\* three segments, each a non-empty proper prefix of its window that counts
\* at most SEGMENT_MAX_TOKENS, whether or not the correction pass ran.
C11_LongTextThreeSegments ==
    (pc = "done" /\ LongSolidText) =>
        /\ \A i \in 1..3 :
               /\ SampleSegments[i] # <<>>
               /\ count_tokens(SampleSegments[i]) <= SEGMENT_MAX_TOKENS
        /\ IsPrefix(begin_txt, begins) /\ Len(begin_txt) < Len(begins)
        /\ IsPrefix(mid_txt, middle) /\ Len(mid_txt) < Len(middle)
        /\ IsPrefix(end_txt, ends) /\ Len(end_txt) < Len(ends)
        /\ Len(IncludedSegments(begin_txt, mid_txt, end_txt)) = 3
        /\ sample_meta.segments_included = <<TITLE_BEGIN, TITLE_MIDDLE, TITLE_END>>

\* a text of 50 characters (windows of 32, overlapping as in the scenario of
\* 100,000 characters with windows of 64,000) has been sampled into three
\* segments
C11_Witness ==
    /\ pc = "done"
    /\ LongSolidText
    /\ Len(text) = 50
    /\ tokenizer = "ratio"
    /\ Len(IncludedSegments(begin_txt, mid_txt, end_txt)) = 3
    /\ \A i \in 1..3 : SampleSegments[i] # <<>>

(***************************************************************************)
(* Failure of the token counter                                            *)
(***************************************************************************)
\* C12: when the counter cannot answer, no error reaches the caller of
\* _trim_to_token_limit: a fallback count is substituted and the call
\* completes.
C12_CountFailureNotSurfaced ==
    ~client_ok => pc # "raised"

\* C13: an empty or whitespace-only text is split into zero chunks.
C13_BlankTextNoChunks ==
    (pc = "done" /\ IsBlank(text)) => chunks = <<>>

\* the title occurs in the text
Occurs(title, s) ==
    \E i \in 1..(Len(s) - Len(title) + 1) : SubSeq(s, i, i + Len(title) - 1) = title

\* the titles that occur in the text, in the order begin, middle, end
TitlesIn(s) ==
    SelectSeq(<<TITLE_BEGIN, TITLE_MIDDLE, TITLE_END>>, LAMBDA t : Occurs(t, s))

\* the titles of the segments that hold a non-whitespace character
TitlesOfNonBlank ==
    (IF IsBlank(begin_txt) THEN <<>> ELSE <<TITLE_BEGIN>>)
        \o (IF IsBlank(mid_txt) THEN <<>> ELSE <<TITLE_MIDDLE>>)
        \o (IF IsBlank(end_txt) THEN <<>> ELSE <<TITLE_END>>)

\* C14: for a non-empty text the metadata records the configured segment
\* limit and budget, the token count of the combined text that is returned,
\* and exactly the titles of the segments present in it, in the order begin,
\* middle, end.
C14_MetadataRecordsSample ==
    (pc = "done" /\ full # <<>>) =>
        /\ sample_meta.segment_max_tokens = SEGMENT_MAX_TOKENS
        /\ sample_meta.target_total_sample_tokens = TARGET_TOTAL_SAMPLE_TOKENS
        /\ sample_meta.actual_total_sample_tokens = count_tokens(combined)
        /\ sample_meta.segments_included = TitlesOfNonBlank
        /\ sample_meta.segments_included = TitlesIn(combined)

\* a sample has been returned after a correction pass with a segment left
\* out, its total being the re-measured one
C14_Witness ==
    /\ pc = "done" /\ full # <<>>
    /\ new_limit # 0
    /\ Len(sample_meta.segments_included) < 3
    /\ end_txt # <<>> /\ IsBlank(end_txt)
    /\ sample_meta.actual_total_sample_tokens = count_tokens(combined)

\* C15: a sample that is still over the budget after the correction pass is
\* returned as it is, without an error, and its metadata records a total
\* greater than the recorded budget.
C15_OverBudgetReturnedAndFlagged ==
    [][(pc = "decide" /\ new_limit # 0 /\ total_tok > TARGET_TOTAL_SAMPLE_TOKENS) =>
          /\ pc' = "done"
          /\ combined' = combined
          /\ combined' = BuildCombined(begin_txt, mid_txt, end_txt)
          /\ sample_meta'.actual_total_sample_tokens = count_tokens(combined)
          /\ sample_meta'.actual_total_sample_tokens
                 > sample_meta'.target_total_sample_tokens]_vars

\* an over-budget sample has been returned after the correction pass
C15_Witness ==
    /\ pc = "done"
    /\ new_limit # 0
    /\ count_tokens(combined) > TARGET_TOTAL_SAMPLE_TOKENS
    /\ sample_meta.actual_total_sample_tokens > sample_meta.target_total_sample_tokens

(***************************************************************************)
(* Properties of the word-level splitting                                  *)
(***************************************************************************)
\* C17: while the words of an oversized line are processed with lines still
\* buffered, the first chunk appended is the chunk of the buffered lines, and
\* every chunk appended is either the buffered lines or buffered words,
\* never a mix.
C17_BufferedLinesFlushedFirst ==
    [][(pc = "word" /\ Len(chunks') > Len(chunks)) =>
          /\ current_chunk # <<>> =>
                 chunks'[Len(chunks) + 1] = Join(current_chunk, <<NL>>)
          /\ \A i \in (Len(chunks) + 1)..Len(chunks') :
                 chunks'[i] \in {Join(current_chunk, <<NL>>), Join(word_chunk, <<SP>>)}]_vars

\* the estimate the word loop adds for a word
WordTokens(w) == estimate_tokens(Append(w, SP))

RECURSIVE SumWordTokens(_)
SumWordTokens(ws) ==
    IF ws = <<>> THEN 0 ELSE WordTokens(ws[1]) + SumWordTokens(Tail(ws))

\* a text of one line with several words that does not take the fast path
OneOversizedLine ==
    /\ \A i \in 1..Len(text) : text[i] # NL
    /\ estimate_tokens(text) > max_tokens
    /\ Len(SplitWords(text)) >= 2

\* C18: for one oversized line of several words the chunks are runs of
\* consecutive words joined by single spaces; a word is added to a run while
\* the running sum stays within max_tokens and a run is closed only when the
\* next word would push the sum over it; there is more than one chunk when
\* the words do not all fit; a word that alone exceeds the limit is a chunk
\* of its own.
C18_WordLevelGreedy ==
    (pc = "done" /\ OneOversizedLine) =>
        /\ WordsOfChunks(chunks) = SplitWords(text)
        /\ SumWordTokens(SplitWords(text)) > max_tokens => Len(chunks) > 1
        /\ \A i \in DOMAIN chunks :
               LET ws == SplitWords(chunks[i])
               IN  /\ ws # <<>>
                   /\ chunks[i] = Join(ws, <<SP>>)
                   /\ \A j \in 2..Len(ws) : SumWordTokens(SubSeq(ws, 1, j)) <= max_tokens
                   /\ i < Len(chunks) =>
                          SumWordTokens(ws) + WordTokens(SplitWords(chunks[i + 1])[1])
                              > max_tokens
                   /\ \A j \in DOMAIN ws : WordTokens(ws[j]) > max_tokens => Len(ws) = 1

\* a line has been split into a word that exceeds the limit, alone, and a
\* run of two words
C18_Witness ==
    /\ pc = "done" /\ OneOversizedLine
    /\ Len(chunks) >= 2
    /\ \E i \in DOMAIN chunks :
           Len(SplitWords(chunks[i])) = 1 /\ WordTokens(chunks[i]) > max_tokens
    /\ \E i \in DOMAIN chunks : Len(SplitWords(chunks[i])) = 2

(***************************************************************************)
(* Properties of the binary search of _trim_to_token_limit                 *)
(***************************************************************************)
\* even the one-character prefix counts more than the limit
NoPrefixFits ==
    /\ ~IsBlank(text)
    /\ \A k \in 1..Len(text) : ~WithinLimit(count_tokens(Prefix(text, k)), max_tokens)

\* C19: when the token counter works and no non-empty prefix of the text is
\* within the limit, the call returns (it does not raise) and what it returns
\* is the empty string.
C19_NoFittingPrefixGivesEmpty ==
    (client_ok /\ NoPrefixFits) =>
        /\ pc # "raised"
        /\ pc = "done" => result = <<>>

\* the search has run to its end over a text none of whose prefixes fits
C19_Witness ==
    /\ pc = "done" /\ client_ok /\ NoPrefixFits
    /\ Len(text) >= 3 /\ calls >= 3
    /\ result = <<>>

\* the least k with 2^k >= x
CeilLog2(x) == CHOOSE k \in 0..x : 2 ^ k >= x /\ (k = 0 \/ 2 ^ (k - 1) < x)

CallBound(n) == 1 + CeilLog2(n + 1)

\* C20: every call of _trim_to_token_limit whose token counter answers
\* returns, every call comes to an end, and at no point has a call made more
\* than 1 + ceil(log2(n + 1)) calls to the token counter, n the length of the
\* text.
C20_TerminatesWithinLogCalls ==
    /\ [](calls <= CallBound(Len(text)))
    /\ <>(pc \in {"done", "raised"})
    /\ client_ok => <>(pc = "done")

\* a search that used every call the bound allows
C20_Witness ==
    /\ pc = "done"
    /\ Len(text) >= 4
    /\ calls = CallBound(Len(text))

(***************************************************************************)
(* Properties of invocations in flight together                            *)
(***************************************************************************)
\* how a call ended and what it returned, read from its locals
Outcome(kind, f) ==
    IF f.pc = "raised" THEN [pc |-> "raised", value |-> <<>>]
    ELSE CASE kind = "split"  -> [pc |-> "done", value |-> f.chunks]
           [] kind = "trim"   -> [pc |-> "done", value |-> f.result]
           [] kind = "sample" -> [pc |-> "done", value |-> <<f.combined, f.sample_meta>>]

\* how the call ends and what it returns when nothing else runs
Alone(c) ==
    CASE c.kind = "split" ->
             [pc |-> "done", value |-> split_text_by_tokens(c.text, c.max_tokens)]
      [] c.kind = "trim" ->
             IF ~client_ok /\ ~IsBlank(c.text)
             THEN [pc |-> "raised", value |-> <<>>]
             ELSE [pc |-> "done", value |-> trim_to_token_limit(c.text, c.max_tokens).out]
      [] c.kind = "sample" ->
             IF ~client_ok /\ SampleFull(c.text) # <<>>
             THEN [pc |-> "raised", value |-> <<>>]
             ELSE LET r == build_representative_sample(c.text)
                  IN  [pc |-> "done", value |-> <<r.combined, r.sample_meta>>]

\* the single calls agree with the functions taken step by step
SplitCallAgrees ==
    pc = "done" => chunks = split_text_by_tokens(text, max_tokens)

SampleCallAgrees ==
    (pc = "done" /\ tokenizer \in Tokenizers) =>
        /\ combined = build_representative_sample(text).combined
        /\ sample_meta = build_representative_sample(text).sample_meta

\* C16: with two invocations interleaved in any order, the text of each is
\* at every moment the text it was called with, and each invocation that has
\* ended has ended as it ends when run alone, with the same result.
C16_InterleavedSameAsAlone ==
    /\ text = inv[running].text
    /\ saved.text = inv[3 - running].text
    /\ Terminal(pc) => Outcome(inv[running].kind, Frame) = Alone(inv[running])
    /\ Terminal(saved.pc) => Outcome(inv[3 - running].kind, saved) = Alone(inv[3 - running])

\* both invocations have returned, each after having been suspended while
\* under way, one of them a sampling that took its correction pass
C16_Witness ==
    /\ pc = "done" /\ saved.pc = "done"
    /\ preempted[1] /\ preempted[2]
    /\ inv[1].kind = "sample" /\ inv[2].kind # "sample"
    /\ IF running = 1 THEN new_limit > 0 ELSE saved.new_limit > 0

(***************************************************************************)
(* Properties of the candidate windows and of the segments' positions      *)
(***************************************************************************)
\* the characters [a, b) of t, 0-based, for 0 <= a <= b <= Len(t)
SubstringAt(t, a, b) == [i \in 1..(b - a) |-> t[a + i]]

InBounds(t, a, b) == 0 <= a /\ a <= b /\ b <= Len(t)

\* the character ranges of the three windows
BeginRange(n)  == [from |-> 0, to |-> Min(n, 2 * seg_chars)]
MiddleRange(n) == [from |-> Max(0, (n \div 2) - seg_chars),
                   to |-> Min(n, (n \div 2) + seg_chars)]
EndRange(n)    == [from |-> Max(0, n - 2 * seg_chars), to |-> n]

\* C21: once the windows of a non-empty stripped text of length n are taken,
\* begin is the characters [0, min(n, 2s)), middle the characters
\* [max(0, n div 2 - s), min(n, n div 2 + s)) and end the characters
\* [max(0, n - 2s), n); each range is within the text and at most 2s long.
C21_WindowsAreTheRanges ==
    (pc # "sample" /\ full # <<>>) =>
        LET n == Len(full)
            rs == <<BeginRange(n), MiddleRange(n), EndRange(n)>>
            ws == <<begins, middle, ends>>
        IN  \A k \in 1..3 :
                /\ InBounds(full, rs[k].from, rs[k].to)
                /\ rs[k].to - rs[k].from <= 2 * seg_chars
                /\ ws[k] = SubstringAt(full, rs[k].from, rs[k].to)

\* the windows of a text long enough for none of them to be clamped
C21_Witness ==
    /\ pc = "combine"
    /\ Len(full) > 4 * seg_chars
    /\ Len(begins) = 2 * seg_chars /\ Len(middle) = 2 * seg_chars
    /\ Len(ends) = 2 * seg_chars

\* the three segments have been trimmed
SegmentsTaken == pc \in {"combine", "decide", "done"}

\* the text is long enough for the windows not to meet
LongEnoughForDisjoint == Len(full) >= 6 * seg_chars

\* C22: for a stripped text of at least 6 * SEGMENT_MAX_TOKENS *
\* TOKEN_TO_CHAR_RATIO characters each segment is the characters of the text
\* from the start of its window on, and the three ranges are pairwise
\* disjoint, in the order begin, middle, end.
C22_SegmentsDisjointInOrder ==
    (SegmentsTaken /\ LongEnoughForDisjoint) =>
        LET n == Len(full)
            b == [from |-> BeginRange(n).from, to |-> BeginRange(n).from + Len(begin_txt)]
            m == [from |-> MiddleRange(n).from, to |-> MiddleRange(n).from + Len(mid_txt)]
            e == [from |-> EndRange(n).from, to |-> EndRange(n).from + Len(end_txt)]
        IN  /\ InBounds(full, b.from, b.to) /\ begin_txt = SubstringAt(full, b.from, b.to)
            /\ InBounds(full, m.from, m.to) /\ mid_txt = SubstringAt(full, m.from, m.to)
            /\ InBounds(full, e.from, e.to) /\ end_txt = SubstringAt(full, e.from, e.to)
            /\ b.to <= m.from
            /\ m.to <= e.from

\* a sample of three non-empty segments from a text at the threshold length
C22_Witness ==
    /\ pc = "done"
    /\ Len(full) = 6 * seg_chars
    /\ begin_txt # <<>> /\ mid_txt # <<>> /\ end_txt # <<>>

\* C22 as stated, on the length of the text as given
C22_SegmentsDisjointInOrder_Claimed ==
    (pc = "done" /\ Len(text) >= 6 * seg_chars) =>
        LET n == Len(full)
        IN  /\ BeginRange(n).from + Len(begin_txt) <= MiddleRange(n).from
            /\ MiddleRange(n).from + Len(mid_txt) <= EndRange(n).from

(***************************************************************************)
(* Properties of the combined sample and of the correction pass            *)
(***************************************************************************)
\* the labelled segments in the order begin, middle, end, blank ones left out
LabelledSegments ==
    (IF IsBlank(begin_txt) THEN <<>> ELSE <<[label |-> TITLE_BEGIN, txt |-> begin_txt]>>)
        \o (IF IsBlank(mid_txt) THEN <<>> ELSE <<[label |-> TITLE_MIDDLE, txt |-> mid_txt]>>)
        \o (IF IsBlank(end_txt) THEN <<>> ELSE <<[label |-> TITLE_END, txt |-> end_txt]>>)

\* the sample has been put together from the segments as they are now
SampleBuilt == pc \in {"decide", "done"} /\ full # <<>>

\* C23 as stated: each entry is the label, a line break and the segment
C23_CombinedIsLabelledSegments_Claimed ==
    (pc = "done" /\ full # <<>>) =>
        combined = Join([i \in 1..Len(LabelledSegments) |->
                            LabelledSegments[i].label \o <<NL>> \o LabelledSegments[i].txt],
                        <<NL, NL>>)

\* C23: the combined sample is the segments that are not blank, in the order
\* begin, middle, end, each as its label, a line break and the segment
\* without its trailing whitespace, with one blank line between consecutive
\* entries; a blank segment contributes neither text nor label.
C23_CombinedIsLabelledSegments ==
    SampleBuilt =>
        combined = Join([i \in 1..Len(LabelledSegments) |->
                            LabelledSegments[i].label \o <<NL>>
                                \o RStrip(LabelledSegments[i].txt)],
                        <<NL, NL>>)

\* a sample with a segment left out for being whitespace only and a segment
\* that ends in whitespace
C23_Witness ==
    /\ pc = "done" /\ full # <<>>
    /\ \E s \in {begin_txt, mid_txt, end_txt} : s # <<>> /\ IsBlank(s)
    /\ \E i \in 1..Len(LabelledSegments) :
           IsSpace(LabelledSegments[i].txt[Len(LabelledSegments[i].txt)])
    /\ Len(LabelledSegments) = 2

\* the three segments are the raw windows trimmed to limit
SegmentsAreWindowsTrimmedTo(limit) ==
    /\ begin_txt = trim_to_token_limit(SubstringAt(full, BeginRange(Len(full)).from,
                                                   BeginRange(Len(full)).to), limit).out
    /\ mid_txt = trim_to_token_limit(SubstringAt(full, MiddleRange(Len(full)).from,
                                                 MiddleRange(Len(full)).to), limit).out
    /\ end_txt = trim_to_token_limit(SubstringAt(full, EndRange(Len(full)).from,
                                                 EndRange(Len(full)).to), limit).out

\* C24: the correction is entered only after a first total over the budget,
\* with the limit max(floor, SEGMENT_MAX_TOKENS * TARGET_TOTAL_SAMPLE_TOKENS
\* div first total); the reduced limit, once set, never changes, and the
\* measurement that follows it is followed by the return of what was
\* measured; the segments then are the three raw windows trimmed to the
\* reduced limit, combined and measured anew; a first total within the budget
\* is followed by the return of the first-pass segments as they are.
C24_OneCorrectionPass ==
    /\ [][(pc = "decide" /\ pc' # "done") =>
              /\ new_limit = 0
              /\ total_tok > TARGET_TOTAL_SAMPLE_TOKENS
              /\ new_limit' = Max(MIN_SEGMENT_TOKENS,
                                  (SEGMENT_MAX_TOKENS * TARGET_TOTAL_SAMPLE_TOKENS)
                                      \div total_tok)
              /\ pc' = "trim_begin"
              /\ <<full, begins, middle, ends>>' = <<full, begins, middle, ends>>]_vars
    /\ [][new_limit # 0 => new_limit' = new_limit]_vars
    /\ [][(pc = "decide" /\ (new_limit # 0 \/ total_tok <= TARGET_TOTAL_SAMPLE_TOKENS)) =>
              /\ pc' = "done"
              /\ <<begin_txt, mid_txt, end_txt, combined, total_tok>>'
                     = <<begin_txt, mid_txt, end_txt, combined, total_tok>>
              /\ sample_meta'.actual_total_sample_tokens = total_tok]_vars
    /\ []((pc \in {"decide", "done"} /\ full # <<>>) =>
              /\ SegmentsAreWindowsTrimmedTo(IF new_limit = 0 THEN SEGMENT_MAX_TOKENS
                                             ELSE new_limit)
              /\ total_tok = count_tokens(combined)
              /\ new_limit = 0 => total_tok <= TARGET_TOTAL_SAMPLE_TOKENS \/ pc = "decide")

\* a sample returned after the correction pass, its segments shorter than
\* those of the first pass would be
C24_Witness ==
    /\ pc = "done"
    /\ new_limit # 0
    /\ new_limit < SEGMENT_MAX_TOKENS
    /\ begin_txt # <<>> /\ mid_txt # <<>> /\ end_txt # <<>>
    /\ ~SegmentsAreWindowsTrimmedTo(SEGMENT_MAX_TOKENS)

\* the token counter is additive over concatenation and monotone
AdditiveCounter == tokenizer = "char"

\* C25: with an additive, monotone token counter, a sample returned after a
\* correction pass whose reduced limit is strictly above the floor has a
\* re-measured total (segments, labels and separators) within
\* TARGET_TOTAL_SAMPLE_TOKENS.
C25_OverBudgetOnlyAtFloor ==
    (pc = "done" /\ AdditiveCounter /\ new_limit > MIN_SEGMENT_TOKENS) =>
        total_tok <= TARGET_TOTAL_SAMPLE_TOKENS

\* C26: an end segment that is included in the returned sample is the last
\* characters of the stripped text.
C26_EndSegmentIsTail ==
    (pc = "done" /\ ~IsBlank(end_txt)) =>
        /\ Len(end_txt) <= Len(full)
        /\ end_txt = SubstringAt(full, Len(full) - Len(end_txt), Len(full))

(***************************************************************************)
(* NovelIngester.chunk_text                                                *)
(***************************************************************************)
MaxChunkTextLen == 6   \* longest text chunked on its own
MaxChunkSize == 4      \* largest chunk_size
MaxOverlap == 4        \* largest overlap

\* a call that has appended more chunks than this has appended more chunks
\* than the text has characters; it is followed no further
MaxChunks == MaxChunkTextLen + 2

\* s[a:b] for any integers a, b (Python slice: a negative index counts from
\* the end, both are clamped to the text)
PySlice(s, a, b) ==
    LET n  == Len(s)
        lo_ == IF a < 0 THEN Max(0, a + n) ELSE Min(a, n)
        hi_ == IF b < 0 THEN Max(0, b + n) ELSE Min(b, n)
    IN  IF lo_ >= hi_ THEN <<>> ELSE SubSeq(s, lo_ + 1, hi_)

\* end = min(start + chunk_size, len(self.text))
ChunkEnd(s, size, n) == Min(s + size, n)

ChunkAdvanceNoOverlap(size, ov) == size

\* start += chunk_size - overlap
ChunkAdvance(size, ov) == size - ov

\* where the caller of chunk_text goes on
AfterChunking == IF caller = "process_novel" THEN "loop" ELSE "done"

\* `while start < len(self.text)` is false: return chunks
ChunkReturn ==
    /\ pc = "chunk"
    /\ ~(start < Len(text))
    /\ pc' = AfterChunking
    /\ UNCHANGED <<text, max_tokens, splitVars, countVars, trimVars, sampleVars,
                   schedVars, ingestVars>>

\* a chunk that does not reach the end of the text; start advances
ChunkNext ==
    /\ pc = "chunk"
    /\ start < Len(text)
    /\ Len(chunks) < MaxChunks
    /\ ChunkEnd(start, chunk_size, Len(text)) # Len(text)
    /\ chunks' = Append(chunks, PySlice(text, start, ChunkEnd(start, chunk_size, Len(text))))
    /\ start' = start + ChunkAdvance(chunk_size, overlap)
    /\ UNCHANGED <<pc, text, max_tokens, lines, li, current_chunk, current_tokens,
                   words, wi, word_chunk, word_tokens, countVars, trimVars, sampleVars,
                   schedVars, chunk_size, overlap, caller, readable, ci, handed, merged,
                   characters, dialogues, reports>>

\* the chunk that reaches the end of the text: break; return chunks
ChunkLast ==
    /\ pc = "chunk"
    /\ start < Len(text)
    /\ Len(chunks) < MaxChunks
    /\ ChunkEnd(start, chunk_size, Len(text)) = Len(text)
    /\ chunks' = Append(chunks, PySlice(text, start, ChunkEnd(start, chunk_size, Len(text))))
    /\ pc' = AfterChunking
    /\ UNCHANGED <<text, max_tokens, lines, li, current_chunk, current_tokens,
                   words, wi, word_chunk, word_tokens, countVars, trimVars, sampleVars,
                   schedVars, ingestVars>>

InitChunk ==
    /\ pc = "chunk"
    /\ text \in TextsUpTo(TrimChars, MaxChunkTextLen)
    /\ max_tokens = 0
    /\ SplitIdle /\ CountIdle /\ TrimIdle /\ SampleIdle /\ SchedIdle
    /\ chunk_size \in 1..MaxChunkSize
    /\ overlap \in 0..MaxOverlap
    /\ start = 0
    /\ caller = "none" /\ readable = TRUE /\ ci = 0
    /\ handed = <<>> /\ merged = <<>>
    /\ characters = <<>> /\ dialogues = <<>> /\ reports = <<>>

NextChunk == ChunkReturn \/ ChunkNext \/ ChunkLast

SpecChunk == InitChunk /\ [][NextChunk]_vars

\* the call runs on its own: a step that can be taken is taken
SpecChunkFair == SpecChunk /\ WF_vars(NextChunk)

(***************************************************************************)
(* Properties of NovelIngester.chunk_text                                  *)
(***************************************************************************)
\* where chunk number i starts when each chunk starts chunk_size - overlap
\* characters after the one before, 0-based
ChunkStart(i) == (i - 1) * (chunk_size - overlap)

\* C27: for a non-empty text and chunk_size > overlap >= 0 the chunks
\* returned are substrings of the text at increasing positions, the first
\* from character 0, the last up to the last character, each at most
\* chunk_size long, each starting `overlap` characters before the end of the
\* one before it and going beyond that end, so that no character is left out.
C27_ChunksCoverWithOverlap ==
    (pc = "done" /\ text # <<>> /\ chunk_size > overlap) =>
        /\ chunks # <<>>
        /\ \A i \in DOMAIN chunks :
               /\ Len(chunks[i]) >= 1 /\ Len(chunks[i]) <= chunk_size
               /\ InBounds(text, ChunkStart(i), ChunkStart(i) + Len(chunks[i]))
               /\ chunks[i] = SubstringAt(text, ChunkStart(i), ChunkStart(i) + Len(chunks[i]))
               /\ i < Len(chunks) =>
                      /\ ChunkStart(i + 1) > ChunkStart(i)
                      /\ ChunkStart(i) + Len(chunks[i]) - ChunkStart(i + 1) = overlap
                      /\ Len(chunks[i + 1]) > overlap
        /\ ChunkStart(Len(chunks)) + Len(chunks[Len(chunks)]) = Len(text)

\* three chunks with an overlap, the last one shorter than chunk_size
C27_Witness ==
    /\ pc = "done"
    /\ chunk_size > overlap /\ overlap >= 1
    /\ Len(chunks) = 3
    /\ Len(chunks[3]) < chunk_size

\* C28: every call of chunk_text returns, and it returns a list of at most
\* one chunk per character of the text (each pass of the loop of a call that
\* returns starts at a later character than the one before).
C28_ChunkTextTerminates ==
    /\ [](Len(chunks) <= Len(text))
    /\ <>(pc = "done")

(***************************************************************************)
(* NovelIngester._merge_data                                               *)
(*                                                                         *)
(* `data` is what the model answered for one chunk: a list of character    *)
(* records, of which only the name matters here, and a number of           *)
(* dialogues.  A record without a name, or with the empty name, has the    *)
(* name <<>>.                                                              *)
(***************************************************************************)
MaxReports == 4     \* named records merged in a run of merge calls
MaxDialogues == 2   \* dialogues merged in a run of merge calls

NoName == <<>>
Names == {NoName, <<"x">>, <<SP, "x">>, <<"y">>, <<SP>>}

\* the character lists of up to two records
CharacterLists == {<<>>} \cup {<<n>> : n \in Names} \cup (Names \X Names)

\* one pass of the body of `for char in data.get("characters", [])`
MergeCharacter(chars, name) ==
    IF name = NoName THEN chars
    ELSE LET char_id == Strip(name)
             entered == IF char_id \in DOMAIN chars THEN chars[char_id] ELSE 1
         IN  [k \in DOMAIN chars \cup {char_id} |->
                 IF k = char_id THEN entered + 1 ELSE chars[k]]

RECURSIVE MergeCharacters(_, _)
MergeCharacters(chars, records) ==
    IF records = <<>> THEN chars
    ELSE MergeCharacters(MergeCharacter(chars, Head(records)), Tail(records))

\* the stripped names of the named records of a list, in order
ReportedNames(records) ==
    LET named == SelectSeq(records, LAMBDA n : n # NoName)
    IN  [i \in 1..Len(named) |-> Strip(named[i])]

\* the dialogues of data appended, each stamped with chunk_index
MergeDialogues(dials, count, chunk_index) ==
    dials \o [i \in 1..count |-> chunk_index]

\* a call of _merge_data(data, chunk_index) on its own
MergeData ==
    /\ pc = "merge"
    /\ \E data \in [characters : CharacterLists, dialogues : 0..1], chunk_index \in 0..1 :
           /\ Len(reports) + Len(ReportedNames(data.characters)) <= MaxReports
           /\ Len(dialogues) + data.dialogues <= MaxDialogues
           /\ characters' = MergeCharacters(characters, data.characters)
           /\ dialogues' = MergeDialogues(dialogues, data.dialogues, chunk_index)
           /\ reports' = reports \o ReportedNames(data.characters)
    /\ UNCHANGED <<pc, text, max_tokens, splitVars, countVars, trimVars, sampleVars,
                   schedVars, chunk_size, overlap, start, caller, readable, ci, handed,
                   merged>>

InitMerge ==
    /\ pc = "merge"
    /\ text = <<>> /\ max_tokens = 0
    /\ SplitIdle /\ CountIdle /\ TrimIdle /\ SampleIdle /\ SchedIdle /\ IngestIdle

NextMerge == MergeData

SpecMerge == InitMerge /\ [][NextMerge]_vars

(***************************************************************************)
(* Properties of NovelIngester._merge_data                                 *)
(***************************************************************************)
\* how many of the records merged so far carried the stripped name id
TimesReported(id) == Cardinality({i \in DOMAIN reports : reports[i] = id})

\* C30: the accumulated characters have one entry for each stripped name
\* that has been merged and no other, and the mentions of an entry is the
\* number of records merged with that name.
C30_MentionsCountReports ==
    /\ DOMAIN characters = {reports[i] : i \in DOMAIN reports}
    /\ \A id \in DOMAIN characters : characters[id] = TimesReported(id)

(***************************************************************************)
(* process_file and NovelIngester.process_novel: the loops that hand the   *)
(* chunks to the model.  What the model answers is outside the repository: *)
(* each call either fails (an exception inside the `try`, an answer that   *)
(* is not JSON included) or answers.  For process_novel an answer is       *)
(* parsed JSON: an object with content, an empty object, or JSON that is   *)
(* not an object (a list).                                                 *)
(***************************************************************************)
DEFAULT_CHUNK_SIZE == 3   \* chunk_size=15000 and
DEFAULT_OVERLAP == 1      \* overlap=500, scaled down

ProcessTexts ==
    {<<>>, <<"a">>, ConcSplitText, Repeated(<<"a", SP>>, ConcTrimLen)}

\* the objects the model answers with
ProcessData ==
    { [characters |-> <<>>, dialogues |-> 1],
      [characters |-> <<<<"x">>>>, dialogues |-> 0],
      [characters |-> <<<<SP, "x">>, <<"y">>>>, dialogues |-> 0] }

\* read_and_split_file: the file cannot be read; `if not chunks: return`
FileUnreadable ==
    /\ pc = "read"
    /\ ~readable
    /\ chunks' = <<>>
    /\ pc' = "done"
    /\ UNCHANGED <<text, max_tokens, lines, li, current_chunk, current_tokens,
                   words, wi, word_chunk, word_tokens, countVars, trimVars, sampleVars,
                   schedVars, ingestVars>>

\* read_and_split_file: chunks = split_text_by_tokens(text, max_tokens)
FileRead ==
    /\ pc = "read"
    /\ readable
    /\ chunks' = split_text_by_tokens(text, max_tokens)
    /\ pc' = IF chunks' = <<>> THEN "done" ELSE "loop"
    /\ UNCHANGED <<text, max_tokens, lines, li, current_chunk, current_tokens,
                   words, wi, word_chunk, word_tokens, countVars, trimVars, sampleVars,
                   schedVars, ingestVars>>

\* the call made for the chunk the loop is at
ModelCall(outcome) ==
    IF caller = "process_file"
    THEN [chunk |-> chunks[ci + 1], index |-> ci + 1, total |-> Len(chunks),
          outcome |-> outcome]
    ELSE [chunk |-> chunks[ci + 1], index |-> ci, total |-> 0, outcome |-> outcome]

\* process_file: generate(chunk, i, len(chunks)) returns
GenerateDone ==
    /\ pc = "loop" /\ caller = "process_file"
    /\ ci < Len(chunks)
    /\ handed' = Append(handed, ModelCall("answered"))
    /\ merged' = Append(merged, ci + 1)
    /\ ci' = ci + 1
    /\ UNCHANGED <<pc, text, max_tokens, splitVars, countVars, trimVars, sampleVars,
                   schedVars, chunk_size, overlap, start, caller, readable,
                   characters, dialogues, reports>>

\* process_file: generate raises; `except Exception: continue`
GenerateFails ==
    /\ pc = "loop" /\ caller = "process_file"
    /\ ci < Len(chunks)
    /\ handed' = Append(handed, ModelCall("failed"))
    /\ ci' = ci + 1
    /\ UNCHANGED <<pc, text, max_tokens, splitVars, countVars, trimVars, sampleVars,
                   schedVars, chunk_size, overlap, start, caller, readable, merged,
                   characters, dialogues, reports>>

\* extract_from_chunk: `if not self.client: raise ValueError`, before the `try`
ExtractNoClient ==
    /\ pc = "loop" /\ caller = "process_novel"
    /\ ci < Len(chunks)
    /\ ~client_ok
    /\ pc' = "raised"
    /\ UNCHANGED <<text, max_tokens, splitVars, countVars, trimVars, sampleVars,
                   schedVars, ingestVars>>

\* extract_from_chunk returns None (the call or the parsing failed) or an
\* empty object: `if data:` is false
ExtractNothing ==
    /\ pc = "loop" /\ caller = "process_novel"
    /\ ci < Len(chunks)
    /\ client_ok
    /\ \E outcome \in {"failed", "empty"} : handed' = Append(handed, ModelCall(outcome))
    /\ ci' = ci + 1
    /\ UNCHANGED <<pc, text, max_tokens, splitVars, countVars, trimVars, sampleVars,
                   schedVars, chunk_size, overlap, start, caller, readable, merged,
                   characters, dialogues, reports>>

\* extract_from_chunk returns an object: self._merge_data(data, i)
ExtractData ==
    /\ pc = "loop" /\ caller = "process_novel"
    /\ ci < Len(chunks)
    /\ client_ok
    /\ \E data \in ProcessData :
           /\ characters' = MergeCharacters(characters, data.characters)
           /\ dialogues' = MergeDialogues(dialogues, data.dialogues, ci)
           /\ reports' = reports \o ReportedNames(data.characters)
    /\ handed' = Append(handed, ModelCall("answered"))
    /\ merged' = Append(merged, ci)
    /\ ci' = ci + 1
    /\ UNCHANGED <<pc, text, max_tokens, splitVars, countVars, trimVars, sampleVars,
                   schedVars, chunk_size, overlap, start, caller, readable>>

\* extract_from_chunk returns parsed JSON that is not an object: `if data:`
\* is true and data.get in _merge_data raises AttributeError
ExtractNotAnObject ==
    /\ pc = "loop" /\ caller = "process_novel"
    /\ ci < Len(chunks)
    /\ client_ok
    /\ handed' = Append(handed, ModelCall("not an object"))
    /\ pc' = "raised"
    /\ UNCHANGED <<text, max_tokens, splitVars, countVars, trimVars, sampleVars,
                   schedVars, chunk_size, overlap, start, caller, readable, ci, merged,
                   characters, dialogues, reports>>

\* the list is exhausted
LoopEnd ==
    /\ pc = "loop"
    /\ ci = Len(chunks)
    /\ pc' = "done"
    /\ UNCHANGED <<text, max_tokens, splitVars, countVars, trimVars, sampleVars,
                   schedVars, ingestVars>>

InitProcess ==
    /\ caller \in {"process_file", "process_novel"}
    /\ pc = IF caller = "process_file" THEN "read" ELSE "chunk"
    /\ text \in ProcessTexts
    /\ max_tokens = IF caller = "process_file" THEN 1 ELSE 0
    /\ readable \in (IF caller = "process_file" THEN BOOLEAN ELSE {TRUE})
    /\ tokenizer = "none"
    /\ client_ok \in (IF caller = "process_novel" THEN BOOLEAN ELSE {TRUE})
    /\ calls = 0
    /\ chunk_size = (IF caller = "process_novel" THEN DEFAULT_CHUNK_SIZE ELSE 0)
    /\ overlap = (IF caller = "process_novel" THEN DEFAULT_OVERLAP ELSE 0)
    /\ start = 0 /\ ci = 0
    /\ handed = <<>> /\ merged = <<>>
    /\ characters = <<>> /\ dialogues = <<>> /\ reports = <<>>
    /\ SplitIdle /\ TrimIdle /\ SampleIdle /\ SchedIdle

NextProcess ==
    \/ FileUnreadable \/ FileRead \/ GenerateDone \/ GenerateFails
    \/ ChunkReturn \/ ChunkNext \/ ChunkLast
    \/ ExtractNoClient \/ ExtractNothing \/ ExtractData \/ ExtractNotAnObject
    \/ LoopEnd

SpecProcess == InitProcess /\ [][NextProcess]_vars

(***************************************************************************)
(* Properties of the chunk-processing loops                                *)
(***************************************************************************)
\* the index the loop gives to the chunk at position i of the list
IndexGiven(i) == IF caller = "process_file" THEN i ELSE i - 1

\* the calls made so far are for the first chunks of the list, one each, in
\* order, each with its own index (and the total in process_file)
HandedInOrder ==
    /\ Len(handed) <= Len(chunks)
    /\ \A i \in DOMAIN handed :
           /\ handed[i].chunk = chunks[i]
           /\ handed[i].index = IndexGiven(i)
           /\ caller = "process_file" => handed[i].total = Len(chunks)

\* what has been merged or reported finished is the chunks whose call
\* answered, in order
MergedAreAnswered ==
    LET answered == SelectSeq(handed, LAMBDA h : h.outcome = "answered")
    IN  merged = [i \in 1..Len(answered) |-> answered[i].index]

\* C29: no exception leaves the loops; the calls made are for the chunks in
\* list order, each once, with its index; when the loop is over every chunk
\* has been handed to the model; only chunks whose call answered are merged;
\* a file that cannot be read leads to no call.
C29_EveryChunkHandedOnce ==
    /\ pc # "raised"
    /\ HandedInOrder
    /\ MergedAreAnswered
    /\ pc = "done" => Len(handed) = Len(chunks)
    /\ (caller = "process_file" /\ ~readable) => handed = <<>>

====
